---------------------------- MODULE Spec2Model ----------------------------
(***************************************************************************)
(* Model of the Jetson camera servers (src/server_ip_camera.py and the     *)
(* older USB variant src/server.py):                                       *)
(*   - camera discovery: scan_for_cameras with its two passes and the      *)
(*     publication of discovered_cameras under camera_lock;                *)
(*   - the readers of the registry (get_cameras);                          *)
(*   - the per-viewer signaling handler webrtc_handler;                    *)
(*   - the per-track frame pump IPVideoTrack.recv / USBVideoTrack.recv.    *)
(***************************************************************************)
EXTENDS Integers, Sequences, FiniteSets, TLC

(***************************************************************************)
(* Bounds of the model.                                                    *)
(***************************************************************************)
\* scan threads: the startup scan of main() and the rescans
MaxScans == 2
\* concurrent HTTP readers of the registry
MaxReaders == 1

\* hosts of the scanned subnet (network.hosts(): 254 in a /24)
Hosts == {1, 2}
Scans == 1..MaxScans
Readers == 1..MaxReaders

\* The entries of CAMERA_PORTS the modelled hosts may have open (80 is a
\* port of every MANUFACTURER_DEFAULTS entry).
ScanPorts == {80}

(***************************************************************************)
(* Program constants of discovery.                                         *)
(***************************************************************************)
\* CAMERA_PATHS[:10], the standard paths scan_host_ports tries first
StdPaths ==
  << "/video", "/mjpeg", "/mjpg/video.mjpg", "/video.cgi", "/videostream.cgi",
     "/live", "/stream", "/live.mjpg", "/video/mjpg.cgi", "/mjpg/1/video.mjpg" >>

\* MANUFACTURER_DEFAULTS in dict (insertion) order
MANUFACTURER_DEFAULTS ==
  << [name |-> "axis", ports |-> {80, 554},
      paths |-> << "/axis-cgi/mjpg/video.cgi", "/mjpg/video.mjpg" >>],
     [name |-> "hikvision", ports |-> {80, 554, 8000},
      paths |-> << "/ISAPI/Streaming/channels/1/httppreview",
                   "/streaming/channels/1/httppreview" >>],
     [name |-> "dahua", ports |-> {80, 554, 8000},
      paths |-> << "/cam/realmonitor?channel=1&subtype=0", "/live" >>],
     [name |-> "foscam", ports |-> {80, 88},
      paths |-> << "/videostream.cgi?user=admin&pwd=", "/video.cgi" >>],
     [name |-> "generic", ports |-> {80, 554},
      paths |-> << "/video", "/mjpeg", "/stream" >>] >>

\* the scheme loop of test_camera_stream: http and https first, then rtsp
Schemes == << "http", "https", "rtsp" >>
\* the five credential variants generated per scheme
Credentials == << "", "admin:admin", "admin:", "admin:password", "admin:123456" >>

NoUrl == [scheme |-> "none", cred |-> "", ip |-> 0, port |-> 0, path |-> ""]
NoStream == [url |-> NoUrl, type |-> "none"]

\* urls_to_test of test_camera_stream, in the order they are tried
UrlsToTest(ip, port, path) ==
  [i \in 1..(Len(Schemes) * Len(Credentials)) |->
     [scheme |-> Schemes[((i - 1) \div Len(Credentials)) + 1],
      cred   |-> Credentials[((i - 1) % Len(Credentials)) + 1],
      ip |-> ip, port |-> port, path |-> path]]

SetMin(S) == CHOOSE x \in S : \A y \in S : x <= y

Range(f) == {f[k] : k \in DOMAIN f}

\* test_camera_stream(ip, port, path): the first URL variant, in order, whose
\* stream test succeeds; `works` is the set of URLs that stream at the time
\* of the call (every failure or exception of one variant moves on to the next).
TestCameraStream(ip, port, path, works) ==
  LET urls == UrlsToTest(ip, port, path)
      hits == {i \in DOMAIN urls : urls[i] \in works}
  IN  IF hits = {} THEN NoStream
      ELSE [url  |-> urls[SetMin(hits)],
            type |-> IF urls[SetMin(hits)].scheme = "rtsp" THEN "rtsp" ELSE "mjpeg"]

(***************************************************************************)
(* The environment of a probe: which URLs of the modelled devices can      *)
(* stream.  Devices answer only on these paths and URL variants.           *)
(***************************************************************************)
LivePaths == {"/video"}
LiveVariants == { <<"http", "">>, <<"rtsp", "">> }

LiveUrls(H, P) ==
  {[scheme |-> v[1], cred |-> v[2], ip |-> h, port |-> p, path |-> q] :
     v \in LiveVariants, h \in H, p \in P, q \in LivePaths}

\* camera_info built by scan_host_ports; discovered_at is the number of the
\* scan cycle that found the camera
CameraInfo(ip, port, stream, path, manufacturer, cycle) ==
  [ip |-> ip, port |-> port, url |-> stream.url, type |-> stream.type,
   path |-> path, discovered_at |-> cycle, manufacturer |-> manufacturer]

\* the standard-path loop: the first of CAMERA_PATHS[:10] that tests good
StdHits(ip, port, works) ==
  {i \in DOMAIN StdPaths : TestCameraStream(ip, port, StdPaths[i], works) # NoStream}

\* the manufacturer loop, flattened in iteration order: every (manufacturer,
\* path) whose manufacturer lists the port
ManufacturerCandidates(port) ==
  LET F[i \in 0..Len(MANUFACTURER_DEFAULTS)] ==
        IF i = 0 THEN << >>
        ELSE LET m == MANUFACTURER_DEFAULTS[i]
             IN  IF port \in m.ports
                 THEN F[i - 1] \o [k \in DOMAIN m.paths |->
                                     [name |-> m.name, path |-> m.paths[k]]]
                 ELSE F[i - 1]
  IN  F[Len(MANUFACTURER_DEFAULTS)]

\* Phase 3 of scan_host_ports for one open port: at most one camera
ScanPort(ip, port, works, cycle) ==
  LET std == StdHits(ip, port, works)
      mc  == ManufacturerCandidates(port)
      mh  == {i \in DOMAIN mc : TestCameraStream(ip, port, mc[i].path, works) # NoStream}
  IN  IF std # {}
      THEN << CameraInfo(ip, port,
                         TestCameraStream(ip, port, StdPaths[SetMin(std)], works),
                         StdPaths[SetMin(std)], "unknown", cycle) >>
      ELSE IF mh # {}
      THEN << CameraInfo(ip, port,
                         TestCameraStream(ip, port, mc[SetMin(mh)].path, works),
                         mc[SetMin(mh)].path, mc[SetMin(mh)].name, cycle) >>
      ELSE << >>

\* scan_host_ports(host): the cameras of the open ports, in the order the
\* port futures completed
RECURSIVE ScanHostPortsOf(_, _, _, _)
ScanHostPortsOf(host, open_ports, works, cycle) ==
  IF open_ports = << >> THEN << >>
  ELSE ScanPort(host, Head(open_ports), works, cycle)
         \o ScanHostPortsOf(host, Tail(open_ports), works, cycle)

\* the sequences without repetition over a set (completion orders)
RECURSIVE Orders(_)
Orders(S) ==
  IF S = {} THEN { << >> }
  ELSE UNION { { <<x>> \o o : o \in Orders(S \ {x}) } : x \in S }

\* the possible open_ports of one host: any open subset, in completion order
OpenPortOrders == UNION { Orders(P) : P \in SUBSET ScanPorts }

\* Phases 2 and 3: cameras_found after the scan_host_ports futures of
\* host_order completed in that order, open_ports[h] being the open ports of h
RECURSIVE SweepHosts(_, _, _, _)
SweepHosts(host_order, open_ports, works, cycle) ==
  IF host_order = << >> THEN << >>
  ELSE ScanHostPortsOf(Head(host_order), open_ports[Head(host_order)], works, cycle)
         \o SweepHosts(Tail(host_order), open_ports, works, cycle)

(***************************************************************************)
(* The order of the probes of scan_host_ports, candidate by candidate.     *)
(***************************************************************************)
\* devices that stream on several candidate paths at once (plain http)
TracedPaths == {"/video", "/live", "/axis-cgi/mjpg/video.cgi"}

TracedUrls(H, P) ==
  {[scheme |-> "http", cred |-> "", ip |-> h, port |-> p, path |-> q] :
     h \in H, p \in P, q \in TracedPaths}

\* the plain http urls of the (ip, port, path) of a list of cameras
UrlsOfCameras(cameras) ==
  {[scheme |-> "http", cred |-> "", ip |-> c.ip, port |-> c.port, path |-> c.path] :
     c \in Range(cameras)}

\* one call test_camera_stream(host, port, path) of scan_host_ports and
\* whether it returned a url
Probe(ip, port, path, works) ==
  [ip |-> ip, port |-> port, path |-> path,
   hit |-> TestCameraStream(ip, port, path, works) # NoStream]

\* a loop that goes on with the remaining candidates after a hit
BreakContinues(rest) == rest

\* `break` after a hit: the remaining candidates of the port are not probed
Break(rest) == << >>

\* for path in CAMERA_PATHS[:10], from the i-th path on
RECURSIVE StandardLoop(_, _, _, _)
StandardLoop(ip, port, works, i) ==
  IF i > Len(StdPaths) THEN << >>
  ELSE LET p == Probe(ip, port, StdPaths[i], works)
       IN  IF p.hit
           THEN << p >> \o Break(StandardLoop(ip, port, works, i + 1))
           ELSE << p >> \o StandardLoop(ip, port, works, i + 1)

\* the manufacturer loops, from the i-th (manufacturer, path) on; the inner
\* break and the outer `if any(...): break` leave both loops after a hit
RECURSIVE ManufacturerLoop(_, _, _, _)
ManufacturerLoop(ip, port, works, i) ==
  LET mc == ManufacturerCandidates(port)
  IN  IF i > Len(mc) THEN << >>
      ELSE LET p == Probe(ip, port, mc[i].path, works)
           IN  IF p.hit
               THEN << p >> \o Break(ManufacturerLoop(ip, port, works, i + 1))
               ELSE << p >> \o ManufacturerLoop(ip, port, works, i + 1)

\* Phase 3 for one open port: the standard loop, then the manufacturer loops
\* when no camera of the port was appended
PortProbes(ip, port, works) ==
  LET std == StandardLoop(ip, port, works, 1)
  IN  IF \E k \in DOMAIN std : std[k].hit THEN std
      ELSE std \o ManufacturerLoop(ip, port, works, 1)

\* for port in open_ports
RECURSIVE HostProbes(_, _, _)
HostProbes(host, open_ports, works) ==
  IF open_ports = << >> THEN << >>
  ELSE PortProbes(host, Head(open_ports), works)
         \o HostProbes(host, Tail(open_ports), works)

\* the probes of a whole first pass, host by host in completion order
RECURSIVE SweepProbes(_, _, _)
SweepProbes(host_order, open_ports, works) ==
  IF host_order = << >> THEN << >>
  ELSE HostProbes(Head(host_order), open_ports[Head(host_order)], works)
         \o SweepProbes(Tail(host_order), open_ports, works)

\* the test of Phase 4: the url test_camera_stream returns for the camera's
\* (ip, port, path); the camera is kept when it is a url
RevalidationUrl(camera, works) ==
  TestCameraStream(camera.ip, camera.port, camera.path, works).url

\* Phase 4: the cameras of cameras_found that are kept, in order
RECURSIVE Revalidate(_, _)
Revalidate(found, works) ==
  IF found = << >> THEN << >>
  ELSE (IF RevalidationUrl(Head(found), works) # NoUrl THEN << Head(found) >> ELSE << >>)
         \o Revalidate(Tail(found), works)

\* a publication that extends the registry in place instead of replacing it
PublishValueExtend(old, validated) == old \o validated

\* what the assignment under camera_lock stores in the registry
PublishValue(old, validated) == validated


(***************************************************************************)
(* Failures of a probe.  Every probing step runs inside try blocks; a      *)
(* failure is an exception of some class raised inside one of them.        *)
(***************************************************************************)
\* requests.exceptions.RequestException covers the connection errors and
\* the timeouts of requests.get; Exception stands for any other class
ExceptionKinds == {"RequestException", "Exception"}

\* `except requests.exceptions.RequestException: continue`
InnerExcept == {"RequestException"}

\* a scan whose `except Exception` clauses are missing
NoExcept == {}

\* `except Exception:` (continue in test_camera_stream, print in the loops
\* over the host futures and over cameras_found)
OuterExcept == {"RequestException", "Exception"}

\* at most one failure at one of the places of S, of any class
FaultsAt(S) == {{}} \cup {{[at |-> x, kind |-> k]} : x \in S, k \in ExceptionKinds}

Places(faults) == {f.at : f \in faults}

\* the failures that no except clause of `clauses` catches
Escaping(faults, clauses) == {f \in faults : f.kind \notin clauses}

NoFaults == [urls |-> {}, hosts |-> {}, cameras |-> {}]


(***************************************************************************)
(* The network operations of the scanning path and the timeout each is     *)
(* given, for a host that stops responding while the operation waits.      *)
(***************************************************************************)
MaxSilences == 2

NoTimeout == 0

\* seconds after which the operation gives up, NoTimeout when the call is
\* given none
ExplicitTimeout(op) ==
  CASE op = "ping"        -> 2   \* subprocess.run(..., timeout=2)
    [] op = "connect"     -> 3   \* sock.settimeout(timeout), called with 3
    [] op = "banner"      -> 1   \* test_sock.settimeout(1)
    [] op = "http_get"    -> 5   \* requests.get(url, timeout=timeout, ...)
    [] op = "http_chunk"  -> 5   \* iter_content on that response
    [] op = "rtsp_open"   -> NoTimeout   \* cv2.VideoCapture(url)
    [] op = "rtsp_read"   -> NoTimeout   \* cap.read()

\* the operations of Phases 1 to 3, and those of Phase 4 (test_camera_stream)
FirstPassOps == {"ping", "connect", "banner", "http_get", "http_chunk",
                 "rtsp_open", "rtsp_read"}
RevalidationOps == {"http_get", "http_chunk", "rtsp_open", "rtsp_read"}

NoProbeOp == [op |-> "none", phase |-> "none"]


(***************************************************************************)
(* The threads that take data_lock and camera_lock, each as the sequence   *)
(* of lock operations one run of its code performs (`with` acquires on     *)
(* entry and releases on exit).                                            *)
(***************************************************************************)
Acquire(l) == << "acquire", l >>
Release(l) == << "release", l >>

\* test_connection taking data_lock inside camera_lock
TestConnectionNested ==
  << Acquire("camera_lock"), Acquire("data_lock"),
     Release("data_lock"), Release("camera_lock") >>

\* test_connection: `with data_lock:` ... then `with camera_lock:` ...
TestConnectionLocks ==
  << Acquire("data_lock"), Release("data_lock"),
     Acquire("camera_lock"), Release("camera_lock") >>

\* get_status: `with data_lock, camera_lock:`
GetStatusLocks ==
  << Acquire("data_lock"), Acquire("camera_lock"),
     Release("camera_lock"), Release("data_lock") >>

\* monitor_jetson (one sample), get_metrics, download_logs
DataLockOnly == << Acquire("data_lock"), Release("data_lock") >>

\* the publication of scan_for_cameras, get_cameras, get_scan_status, the
\* snapshot of webrtc_handler
CameraLockOnly == << Acquire("camera_lock"), Release("camera_lock") >>

LockPrograms ==
  << DataLockOnly,          \* monitor_jetson
     DataLockOnly,          \* get_metrics
     CameraLockOnly,        \* scan_for_cameras
     CameraLockOnly,        \* webrtc_handler
     TestConnectionLocks,   \* test_connection
     GetStatusLocks >>      \* get_status

LockThreads == DOMAIN LockPrograms


(***************************************************************************)
(* Telemetry: monitor_jetson collects one sample per second.               *)
(***************************************************************************)
MAX_HISTORY_SECONDS == 600
MaxSamples == 602

\* `latest_data = {}` before the first sample (no sample has timestamp 0)
NoSample == [timestamp |-> 0, cpu |-> [CPU_total_usage |-> 0]]

\* the n-th sample extract_full returns: its timestamp and a load figure
SampleAt(n) == [timestamp |-> n, cpu |-> [CPU_total_usage |-> (n * 7) % 5]]

\* flatten_data(entry): the top-level fields and the fields of every
\* category, side by side
FlattenData(entry) ==
  [timestamp |-> entry.timestamp, CPU_total_usage |-> entry.cpu.CPU_total_usage]

\* a history cut to its oldest entries
TruncatedOldest(history) == SubSeq(history, 1, MAX_HISTORY_SECONDS)

\* `data_history[-MAX_HISTORY_SECONDS:]`
Truncated(history) ==
  SubSeq(history, Len(history) - MAX_HISTORY_SECONDS + 1, Len(history))

\* get_metrics: 404 while latest_data is empty, else latest_data
MetricsResponse(latest) ==
  IF latest = NoSample THEN [status |-> 404, body |-> NoSample]
  ELSE [status |-> 200, body |-> latest]


VARIABLES
  discovered_cameras,  \* the registry (global discovered_cameras)
  camera_lock,         \* holder of camera_lock: LockFree or <<"reader", r>>
  scanPc,              \* position of every scan thread
  cameras_found,       \* per scan: cameras_found
  validated_cameras,   \* per scan: validated_cameras (also the value returned)
  revalidated_urls,    \* per scan: the url the Phase 4 test returned for every
                       \* camera it kept (the local `url` of the loop)
  returned,            \* per scan: what scan_for_cameras returned to its caller
  probed,              \* per scan: the hosts the scan has sent a probe to (history)
  rescanPc,            \* per scan: position of the rescan_cameras request that
                       \* started it ("none" for the startup scan of main)
  readerPc,            \* position of every get_cameras request
  readerCount,         \* the len(discovered_cameras) a request has read
  response             \* the last response of every get_cameras request

VARIABLES
  server,              \* which program runs: "ip" (server_ip_camera.py) or "usb" (server.py)
  hpc,                 \* position of webrtc_handler
  cameras_to_use,      \* the sources the handler opens (registry snapshot / VIDEO_DEVICES)
  opened,              \* per source: whether its VideoCapture opened (history)
  video_tracks,        \* video_tracks: the sources whose track was added to pc
  signalingState,      \* pc.signalingState
  sessionState,        \* the session state of the design (New .. Closed / Failed)
  history,             \* the session states passed through, in order (history)
  endReason,           \* why the handler left its try block
  inbox,               \* messages the viewer sent that the handler has not read
  peerClosed,          \* the viewer closed the signaling channel
  sent,                \* number of messages the viewer has sent
  processed,           \* the messages the handler has read, in order (history)
  offersSent,          \* number of offers the handler sent
  pcClosed,            \* number of pc.close() calls
  trackPhase,          \* per track: "none", "idle" (no recv pending) or "reading"
  capOpen,             \* per track: cap.isOpened()
  released,            \* per track: number of cap.release() calls
  timestamp,           \* per track: the clock next_timestamp advances
  pts,                 \* per track: the pts taken by the innermost pending recv
  failures,            \* per track: consecutive failed reads of the pending recv
  frames               \* per track: the pts of the frames delivered, in order (history)

VARIABLES
  scan_status,         \* the last response of get_scan_status
  request_log,         \* the HTTP requests Flask has answered: path, method, status
  frame_shape,         \* (height, width) of the last frame a track read
  forwarded_shape,     \* (height, width) of the frame recv returned for it
  probe_input,         \* what the device did in the last single-URL stream test
  probe_accepted,      \* whether that test returned the URL
  probe_log,           \* the probes of the traced first pass, in order (history)
  revalidation_log,    \* the tests of the traced second pass, in order (history)
  scan_faults,         \* the failures raised during the traced scan (history)
  pending_probe,       \* per scan: the network operation its thread waits in, on a
                       \* host that stopped responding, and the phase it belongs to
  silences,            \* how many times a probed host has stopped responding
  data_lock,           \* holder of data_lock: LockFree or <<"thread", t>>
  lock_pc,             \* per thread that takes locks: the lock operation it is at
  latest_data,         \* latest_data: the sample get_metrics serves
  data_history,        \* data_history: the flattened samples
  monitorPc,           \* position of the monitor_jetson thread in its loop
  samples,             \* number of samples extracted so far (their timestamp)
  metrics_status       \* status of the last get_metrics response

telemetryVars == << latest_data, data_history, monitorPc, samples, metrics_status >>
serviceVars == << probe_log, revalidation_log, scan_faults, pending_probe, silences,
                  data_lock, lock_pc, telemetryVars,
                  scan_status, request_log, frame_shape, forwarded_shape,
                  probe_input, probe_accepted >>

scanVars == << discovered_cameras, camera_lock, scanPc, cameras_found,
               validated_cameras, revalidated_urls, returned, probed, rescanPc,
               readerPc, readerCount, response >>

handlerVars == << hpc, cameras_to_use, opened, video_tracks, signalingState,
                  sessionState, history, endReason, processed, offersSent, pcClosed >>
viewerVars == << inbox, peerClosed, sent >>
trackVars == << trackPhase, capOpen, released, timestamp, pts, failures, frames >>

vars == << server, serviceVars, scanVars, handlerVars, viewerVars, trackVars >>

\* camera_lock when no thread holds it
LockFree == << "free", 0 >>

NoResponse == [cameras_found |-> 0, cameras |-> << >>]

\* what a call of scan_for_cameras gave its caller: nothing yet, the None of
\* a bare `return`, or a list of camera records
NotReturned == [kind |-> "running", cameras |-> << >>]
None == [kind |-> "None", cameras |-> << >>]
ListOf(cameras) == [kind |-> "list", cameras |-> cameras]

\* an early return that hands the caller an empty list
NetworkFailureReturnsEmpty == ListOf(<< >>)

\* `if not network: ... return`: the caller gets None
NetworkFailureReturn == None

\* a rescan that builds the thread and never starts it
ThreadNotStarted == "unstarted"

\* scan_thread.start(): the new thread is at the top of scan_for_cameras
ThreadStarted == "idle"

\* `cameras_to_use = discovered_cameras[:2]`
MaxSessionCameras == 2
\* VIDEO_DEVICES of server.py
VIDEO_DEVICES == << "/dev/video0", "/dev/video1" >>
TrackIds == 1..MaxSessionCameras

ScanInit ==
  /\ discovered_cameras = << >>
  /\ camera_lock = LockFree
  /\ scanPc = [s \in Scans |-> IF s = 1 THEN "idle" ELSE "unstarted"]
  /\ cameras_found = [s \in Scans |-> << >>]
  /\ validated_cameras = [s \in Scans |-> << >>]
  /\ revalidated_urls = [s \in Scans |-> << >>]
  /\ returned = [s \in Scans |-> NotReturned]
  /\ probed = [s \in Scans |-> {}]
  /\ rescanPc = [s \in Scans |-> "none"]
  /\ readerPc = [r \in Readers |-> "idle"]
  /\ readerCount = [r \in Readers |-> 0]
  /\ response = [r \in Readers |-> NoResponse]

SessionVarsInit ==
  /\ hpc = "start"
  /\ cameras_to_use = << >>
  /\ opened = << >>
  /\ video_tracks = << >>
  /\ signalingState = "stable"
  /\ sessionState = "New"
  /\ history = << "New" >>
  /\ endReason = "none"
  /\ inbox = << >>
  /\ peerClosed = FALSE
  /\ sent = 0
  /\ processed = << >>
  /\ offersSent = 0
  /\ pcClosed = 0
  /\ trackPhase = [i \in TrackIds |-> "none"]
  /\ capOpen = [i \in TrackIds |-> FALSE]
  /\ released = [i \in TrackIds |-> 0]
  /\ timestamp = [i \in TrackIds |-> 0]
  /\ pts = [i \in TrackIds |-> 0]
  /\ failures = [i \in TrackIds |-> 0]
  /\ frames = [i \in TrackIds |-> << >>]

NoShape == << 0, 0 >>
NoProbe == [kind |-> "none"]
NeverScanned == [cameras_discovered |-> 0, last_scan |-> 0]

ServiceInit ==
  /\ probe_log = << >>
  /\ revalidation_log = << >>
  /\ scan_faults = NoFaults
  /\ pending_probe = [s \in Scans |-> NoProbeOp]
  /\ silences = 0
  /\ data_lock = LockFree
  /\ lock_pc = [t \in LockThreads |-> 0]
  /\ latest_data = NoSample
  /\ data_history = << >>
  /\ monitorPc = "sleep"
  /\ samples = 0
  /\ metrics_status = 0
  /\ scan_status = NeverScanned
  /\ request_log = << >>
  /\ frame_shape = NoShape
  /\ forwarded_shape = NoShape
  /\ probe_input = NoProbe
  /\ probe_accepted = FALSE

\* the IP camera server after main() started it
Init ==
  /\ server = "ip"
  /\ ServiceInit
  /\ ScanInit
  /\ SessionVarsInit

(***************************************************************************)
(* scan_for_cameras, one thread per cycle (main's startup scan, or the     *)
(* thread rescan_cameras starts).  The phases work on locals of the thread *)
(* and on the network, so each is one step; the publication takes          *)
(* camera_lock.                                                            *)
(***************************************************************************)
\* get_local_network() returns None: the scan returns before any probe
ScanNetworkUnavailable(s) ==
  /\ scanPc[s] = "idle"
  /\ scanPc' = [scanPc EXCEPT ![s] = "failed"]
  /\ returned' = [returned EXCEPT ![s] = NetworkFailureReturn]
  /\ UNCHANGED << discovered_cameras, camera_lock, cameras_found, validated_cameras,
                  revalidated_urls, probed, rescanPc, readerPc, readerCount, response >>
  /\ UNCHANGED << server, serviceVars, handlerVars, viewerVars, trackVars >>

\* Phases 1 to 3: the hosts that answer the ping are scanned; the cameras of
\* each are appended to cameras_found as its future completes
Sweep(s, traced) ==
  /\ scanPc[s] = "idle"
  /\ \E active_hosts \in SUBSET Hosts :
       \E host_order \in Orders(active_hosts),
          open_ports \in [active_hosts -> OpenPortOrders],
          streams \in SUBSET (IF traced THEN TracedUrls(active_hosts, ScanPorts)
                                        ELSE LiveUrls(active_hosts, ScanPorts)),
          host_faults \in (IF traced THEN FaultsAt(active_hosts) ELSE {{}}) :
         \E url_faults \in (IF traced THEN FaultsAt(streams) ELSE {{}}) :
           LET works == streams \ Places(url_faults)
               completed == SelectSeq(host_order, LAMBDA h : h \notin Places(host_faults))
               escaping == Escaping(url_faults, InnerExcept \cup OuterExcept)
                             \cup Escaping(host_faults, OuterExcept)
           IN  /\ scanPc' = [scanPc EXCEPT
                    ![s] = IF escaping = {} THEN "found" ELSE "aborted"]
               /\ cameras_found' = [cameras_found EXCEPT
                    ![s] = IF escaping = {}
                           THEN SweepHosts(completed, open_ports, works, s)
                           ELSE << >>]
               /\ probe_log' = IF traced THEN SweepProbes(host_order, open_ports, works)
                                         ELSE probe_log
               /\ scan_faults' = IF traced
                                 THEN [scan_faults EXCEPT !.urls = Places(url_faults),
                                                          !.hosts = Places(host_faults)]
                                 ELSE scan_faults
  /\ probed' = [probed EXCEPT ![s] = Hosts]
  /\ UNCHANGED << discovered_cameras, camera_lock, validated_cameras,
                  revalidated_urls, returned, rescanPc, readerPc, readerCount, response >>
  /\ UNCHANGED << revalidation_log, pending_probe, silences, data_lock, lock_pc, telemetryVars, scan_status, request_log, frame_shape,
                  forwarded_shape, probe_input, probe_accepted >>
  /\ UNCHANGED << server, handlerVars, viewerVars, trackVars >>

ScanSweep(s) == Sweep(s, FALSE)

\* the same first pass with its probes recorded, over devices that stream
\* on several candidate paths
TracedSweep(s) == Sweep(s, TRUE)

\* Phase 4: `for camera in cameras_found`, each re-tested on its (ip, port,
\* path); cameras_found is not read afterwards
Revalidation(s, traced) ==
  /\ scanPc[s] = "found"
  /\ \E streams \in SUBSET (IF traced THEN UrlsOfCameras(cameras_found[s])
                                      ELSE LiveUrls(Hosts, ScanPorts)),
        camera_faults \in (IF traced THEN FaultsAt(Range(cameras_found[s])) ELSE {{}}) :
       LET tested == SelectSeq(cameras_found[s],
                               LAMBDA c : c \notin Places(camera_faults))
           kept == Revalidate(tested, streams)
           escaping == Escaping(camera_faults, OuterExcept)
       IN  /\ scanPc' = [scanPc EXCEPT
                ![s] = IF escaping = {} THEN "validated" ELSE "aborted"]
           /\ validated_cameras' = [validated_cameras EXCEPT ![s] = kept]
           /\ revalidated_urls' = [revalidated_urls EXCEPT
                ![s] = [i \in DOMAIN kept |-> RevalidationUrl(kept[i], streams)]]
           /\ revalidation_log' =
                IF traced
                THEN [k \in DOMAIN cameras_found[s] |->
                        [ip |-> cameras_found[s][k].ip,
                         port |-> cameras_found[s][k].port,
                         path |-> cameras_found[s][k].path,
                         hit |-> /\ cameras_found[s][k] \notin Places(camera_faults)
                                 /\ RevalidationUrl(cameras_found[s][k], streams) # NoUrl]]
                ELSE revalidation_log
           /\ scan_faults' = IF traced
                             THEN [scan_faults EXCEPT !.cameras = Places(camera_faults)]
                             ELSE scan_faults
  /\ cameras_found' = [cameras_found EXCEPT ![s] = << >>]
  /\ UNCHANGED << discovered_cameras, camera_lock, returned, probed, rescanPc,
                  readerPc, readerCount, response >>
  /\ UNCHANGED << probe_log, pending_probe, silences, data_lock, lock_pc, telemetryVars, scan_status, request_log, frame_shape,
                  forwarded_shape, probe_input, probe_accepted >>
  /\ UNCHANGED << server, handlerVars, viewerVars, trackVars >>

ScanRevalidate(s) == Revalidation(s, FALSE)

\* the same second pass with its tests and failures recorded
TracedRevalidate(s) == Revalidation(s, TRUE)

\* `with camera_lock: discovered_cameras = validated_cameras`, then return
ScanPublish(s) ==
  /\ scanPc[s] = "validated"
  /\ camera_lock = LockFree
  /\ discovered_cameras' = PublishValue(discovered_cameras, validated_cameras[s])
  /\ scanPc' = [scanPc EXCEPT ![s] = "done"]
  /\ returned' = [returned EXCEPT ![s] = ListOf(validated_cameras[s])]
  /\ UNCHANGED << camera_lock, cameras_found, validated_cameras, revalidated_urls,
                  probed, rescanPc, readerPc, readerCount, response >>
  /\ UNCHANGED << server, serviceVars, handlerVars, viewerVars, trackVars >>

(***************************************************************************)
(* A probed host stops responding while a thread of the scan waits in a    *)
(* network operation on it.                                                *)
(***************************************************************************)
HostGoesSilent(s) ==
  /\ scanPc[s] \in {"idle", "found"}
  /\ silences < MaxSilences
  /\ silences' = silences + 1
  /\ \E op \in (IF scanPc[s] = "idle" THEN FirstPassOps ELSE RevalidationOps) :
       pending_probe' = [pending_probe EXCEPT ![s] = [op |-> op, phase |-> scanPc[s]]]
  /\ scanPc' = [scanPc EXCEPT ![s] = "waiting"]
  /\ UNCHANGED << discovered_cameras, camera_lock, cameras_found, validated_cameras,
                  revalidated_urls, returned, probed, rescanPc, readerPc, readerCount,
                  response >>
  /\ UNCHANGED << probe_log, revalidation_log, scan_faults, data_lock, lock_pc, telemetryVars, scan_status, request_log,
                  frame_shape, forwarded_shape, probe_input, probe_accepted >>
  /\ UNCHANGED << server, handlerVars, viewerVars, trackVars >>

\* the operation gives up (its timeout expires, or a limit of the library
\* behind a call that was given none): the probe has failed and the scan
\* goes on with its phase
ProbeGivesUp(s) ==
  /\ scanPc[s] = "waiting"
  /\ scanPc' = [scanPc EXCEPT ![s] = pending_probe[s].phase]
  /\ pending_probe' = [pending_probe EXCEPT ![s] = NoProbeOp]
  /\ UNCHANGED << discovered_cameras, camera_lock, cameras_found, validated_cameras,
                  revalidated_urls, returned, probed, rescanPc, readerPc, readerCount,
                  response >>
  /\ UNCHANGED << probe_log, revalidation_log, scan_faults, silences, data_lock, lock_pc, telemetryVars, scan_status,
                  request_log, frame_shape, forwarded_shape, probe_input, probe_accepted >>
  /\ UNCHANGED << server, handlerVars, viewerVars, trackVars >>

\* the timeout given to the pending operation expires
ProbeTimesOut(s) ==
  /\ scanPc[s] = "waiting"
  /\ ExplicitTimeout(pending_probe[s].op) # NoTimeout
  /\ ProbeGivesUp(s)

\* a call that was given no timeout returns when the library behind it
\* gives up, if it ever does
ProbeReturnsUntimed(s) ==
  /\ scanPc[s] = "waiting"
  /\ ExplicitTimeout(pending_probe[s].op) = NoTimeout
  /\ ProbeGivesUp(s)

(***************************************************************************)
(* The lock operations of the threads.  lock_pc[t] = 0: the thread is      *)
(* outside its locked code; k > 0: its next operation is LockPrograms[t][k]. *)
(***************************************************************************)
HolderOf(l) == IF l = "data_lock" THEN data_lock ELSE camera_lock

SetHolder(l, h) ==
  IF l = "data_lock"
  THEN data_lock' = h /\ UNCHANGED camera_lock
  ELSE camera_lock' = h /\ UNCHANGED data_lock

LockOthersUnchanged ==
  /\ UNCHANGED << discovered_cameras, scanPc, cameras_found, validated_cameras,
                  revalidated_urls, returned, probed, rescanPc, readerPc, readerCount,
                  response >>
  /\ UNCHANGED << probe_log, revalidation_log, scan_faults, pending_probe, silences, telemetryVars,
                  scan_status, request_log, frame_shape, forwarded_shape, probe_input,
                  probe_accepted >>
  /\ UNCHANGED << server, handlerVars, viewerVars, trackVars >>

\* the thread reaches its locked code: the sample is due, the request has
\* arrived, the scan has its validated list
LockArrive(t) ==
  /\ lock_pc[t] = 0
  /\ lock_pc' = [lock_pc EXCEPT ![t] = 1]
  /\ UNCHANGED << data_lock, camera_lock >>
  /\ LockOthersUnchanged

\* Lock.acquire(): returns once the lock is free, taking it
LockAcquire(t) ==
  /\ lock_pc[t] > 0
  /\ LockPrograms[t][lock_pc[t]][1] = "acquire"
  /\ HolderOf(LockPrograms[t][lock_pc[t]][2]) = LockFree
  /\ SetHolder(LockPrograms[t][lock_pc[t]][2], << "thread", t >>)
  /\ lock_pc' = [lock_pc EXCEPT ![t] = @ + 1]
  /\ LockOthersUnchanged

\* Lock.release() at the end of the with block; after the last one the
\* thread is outside its locked code again
LockRelease(t) ==
  /\ lock_pc[t] > 0
  /\ LockPrograms[t][lock_pc[t]][1] = "release"
  /\ SetHolder(LockPrograms[t][lock_pc[t]][2], LockFree)
  /\ lock_pc' = [lock_pc EXCEPT ![t] = IF @ = Len(LockPrograms[t]) THEN 0 ELSE @ + 1]
  /\ LockOthersUnchanged

LockNext ==
  \/ \E t \in LockThreads : LockArrive(t)
  \/ \E t \in LockThreads : LockAcquire(t)
  \/ \E t \in LockThreads : LockRelease(t)

(***************************************************************************)
(* monitor_jetson and get_metrics.                                         *)
(***************************************************************************)
TelemetryOthersUnchanged ==
  /\ UNCHANGED scanVars
  /\ UNCHANGED << probe_log, revalidation_log, scan_faults, pending_probe, silences,
                  lock_pc, scan_status, request_log, frame_shape, forwarded_shape,
                  probe_input, probe_accepted >>
  /\ UNCHANGED << server, handlerVars, viewerVars, trackVars >>

\* data = extract_full(jetson), then `with data_lock:` is entered
MonitorSample ==
  /\ monitorPc = "sleep"
  /\ samples < MaxSamples
  /\ data_lock = LockFree
  /\ data_lock' = << "thread", 1 >>
  /\ samples' = samples + 1
  /\ monitorPc' = "locked"
  /\ UNCHANGED << latest_data, data_history, metrics_status >>
  /\ TelemetryOthersUnchanged

\* latest_data = data; data_history.append(flatten_data(data))
MonitorAppend ==
  /\ monitorPc = "locked"
  /\ latest_data' = SampleAt(samples)
  /\ data_history' = Append(data_history, FlattenData(SampleAt(samples)))
  /\ monitorPc' = "appended"
  /\ UNCHANGED << data_lock, samples, metrics_status >>
  /\ TelemetryOthersUnchanged

\* the history is cut when it is longer than MAX_HISTORY_SECONDS, the with
\* block ends, and the thread sleeps for a second
MonitorTrim ==
  /\ monitorPc = "appended"
  /\ data_history' = IF Len(data_history) > MAX_HISTORY_SECONDS
                     THEN Truncated(data_history)
                     ELSE data_history
  /\ data_lock' = LockFree
  /\ monitorPc' = "sleep"
  /\ UNCHANGED << latest_data, samples, metrics_status >>
  /\ TelemetryOthersUnchanged

\* GET /metrics: the response is built under data_lock
GetMetrics ==
  /\ data_lock = LockFree
  /\ metrics_status' = MetricsResponse(latest_data).status
  /\ UNCHANGED << data_lock, latest_data, data_history, monitorPc, samples >>
  /\ TelemetryOthersUnchanged

TelemetryNext ==
  \/ MonitorSample
  \/ MonitorAppend
  \/ MonitorTrim
  \/ GetMetrics

(***************************************************************************)
(* rescan_cameras (POST /cameras/rescan): a thread running                 *)
(* scan_for_cameras is started, then the response is returned.  The new    *)
(* thread runs from the moment it is started.                              *)
(* The cycles are numbered in the order they are started.                  *)
(***************************************************************************)
RescanStart(s) ==
  /\ scanPc[s] = "unstarted"
  /\ rescanPc[s] = "none"
  /\ \A t \in Scans : t < s => scanPc[t] # "unstarted"
  /\ scanPc' = [scanPc EXCEPT ![s] = ThreadStarted]
  /\ rescanPc' = [rescanPc EXCEPT ![s] = "started"]
  /\ UNCHANGED << discovered_cameras, camera_lock, cameras_found, validated_cameras,
                  revalidated_urls, returned, probed, readerPc, readerCount, response >>
  /\ UNCHANGED << server, serviceVars, handlerVars, viewerVars, trackVars >>

\* return jsonify({"message": ..., "status": "running", ...})
RescanRespond(s) ==
  /\ rescanPc[s] = "started"
  /\ rescanPc' = [rescanPc EXCEPT ![s] = "responded"]
  /\ UNCHANGED << discovered_cameras, camera_lock, scanPc, cameras_found,
                  validated_cameras, revalidated_urls, returned, probed, readerPc,
                  readerCount, response >>
  /\ UNCHANGED << server, serviceVars, handlerVars, viewerVars, trackVars >>

(***************************************************************************)
(* get_cameras: the registry is read twice under camera_lock.              *)
(***************************************************************************)
ReaderAcquire(r) ==
  /\ readerPc[r] = "idle"
  /\ camera_lock = LockFree
  /\ camera_lock' = << "reader", r >>
  /\ readerPc' = [readerPc EXCEPT ![r] = "locked"]
  /\ UNCHANGED << discovered_cameras, scanPc, cameras_found, validated_cameras,
                  revalidated_urls, returned, probed, rescanPc, readerCount, response >>
  /\ UNCHANGED << server, serviceVars, handlerVars, viewerVars, trackVars >>

\* "cameras_found": len(discovered_cameras)
ReaderCount(r) ==
  /\ readerPc[r] = "locked"
  /\ readerCount' = [readerCount EXCEPT ![r] = Len(discovered_cameras)]
  /\ readerPc' = [readerPc EXCEPT ![r] = "counted"]
  /\ UNCHANGED << discovered_cameras, camera_lock, scanPc, cameras_found,
                  validated_cameras, revalidated_urls, returned, probed, rescanPc,
                  response >>
  /\ UNCHANGED << server, serviceVars, handlerVars, viewerVars, trackVars >>

\* "cameras": discovered_cameras, then the lock is released on return
ReaderRespond(r) ==
  /\ readerPc[r] = "counted"
  /\ response' = [response EXCEPT
       ![r] = [cameras_found |-> readerCount[r], cameras |-> discovered_cameras]]
  /\ readerCount' = [readerCount EXCEPT ![r] = 0]
  /\ camera_lock' = LockFree
  /\ readerPc' = [readerPc EXCEPT ![r] = "idle"]
  /\ UNCHANGED << discovered_cameras, scanPc, cameras_found, validated_cameras,
                  revalidated_urls, returned, probed, rescanPc >>
  /\ UNCHANGED << server, serviceVars, handlerVars, viewerVars, trackVars >>

\* get_scan_status: under camera_lock, the number of cameras and the
\* discovered_at of the first one (0 stands for "never"); the lock is taken
\* and released within the request
GetScanStatus ==
  /\ camera_lock = LockFree
  /\ scan_status' =
       [cameras_discovered |-> Len(discovered_cameras),
        last_scan |-> IF discovered_cameras # << >>
                      THEN discovered_cameras[1].discovered_at ELSE 0]
  /\ UNCHANGED << probe_log, revalidation_log, scan_faults, pending_probe, silences,
                  data_lock, lock_pc, telemetryVars, request_log, frame_shape,
                  forwarded_shape, probe_input, probe_accepted >>
  /\ UNCHANGED << server, scanVars, handlerVars, viewerVars, trackVars >>

(***************************************************************************)
(* webrtc_handler: one viewer session.                                     *)
(***************************************************************************)
\* messages the viewer may send over the signaling channel
MaxMsgs == 3
\* next_timestamp calls per track
MaxTicks == 4

\* what the viewer can put on the channel: the four message kinds, an answer
\* without its data field, an action the handler does not know, a JSON object
\* without "action", and text that is not JSON
MsgKinds == {"answer", "answer_nodata", "ice", "bye", "offer", "unknown",
             "noaction", "garbage"}

Min(a, b) == IF a <= b THEN a ELSE b

\* an open failure that ends the loop: only the sources before it are attached
AttachedUntilFailure(ok) ==
  SelectSeq([i \in DOMAIN ok |-> i], LAMBDA i : \A j \in 1..i : ok[j])

\* the tracks added to pc: every source whose VideoCapture opened (an open
\* that raises is caught inside the loop and the loop goes on)
AttachedTracks(ok) ==
  SelectSeq([i \in DOMAIN ok |-> i], LAMBDA i : ok[i])

\* `if not video_tracks: return`, which only server_ip_camera.py has
NoSourcesReturn(srv, tracks) == srv = "ip" /\ tracks = << >>

\* pc.createOffer() / pc.setLocalDescription(): they may raise; the WebRTC
\* library refuses to create an offer for a connection without any track
CreateOfferOutcomes(tracks) ==
  IF tracks = << >> THEN {"raise"} ELSE {"ok", "raise"}

\* the body of `async for message in websocket` for one message:
\*   "raise"  json.loads, msg["action"] or msg["data"] raises, or the library
\*            refuses the answer (an answer is accepted in have-local-offer only)
\*   "apply"  pc.setRemoteDescription(answer) succeeds
\*   "ice"    pc.addIceCandidate(msg["data"])
\*   "break"  bye
\*   "ignore" no branch matches: the loop reads the next message
MessageEffect(action, sigState) ==
  CASE action \in {"garbage", "noaction", "answer_nodata"} -> "raise"
    [] action = "answer" -> IF sigState = "have-local-offer" THEN "apply" ELSE "raise"
    [] action = "ice" -> "ice"
    [] action = "bye" -> "break"
    [] OTHER -> "ignore"

\* a bye that does not leave the loop
AfterByeContinue == "loop"

\* where the handler goes after a bye: `break` leaves the loop
AfterBye == "closing"

\* the history of session states: a state is entered when it changes
Enter(st) ==
  /\ sessionState' = st
  /\ history' = IF st = sessionState THEN history ELSE Append(history, st)

\* `except Exception` then `finally`
Fail(reason) ==
  /\ Enter("Failed")
  /\ endReason' = reason
  /\ hpc' = "closing"

\* a read that runs on the thread of the event loop
ReadOnEventLoop == FALSE

\* `await loop.run_in_executor(None, self.cap.read)`: the read runs on a
\* worker thread of the default executor and recv is suspended meanwhile
ReadInExecutor == TRUE

\* the event loop can run another coroutine: no read occupies its thread
EventLoopFree == ReadInExecutor \/ \A i \in TrackIds : trackPhase[i] # "reading"

\* a return that leaves the handler at once
ReturnSkipsFinally == "done"

\* `return` inside the try block: the finally clause runs before the
\* handler returns
ReturnInsideTry == "closing"

\* a session that takes the whole registry
SnapshotAll(registry) == registry

\* `discovered_cameras[:2]`: a new list of the first two entries
Snapshot(registry) == SubSeq(registry, 1, Min(MaxSessionCameras, Len(registry)))

\* pc = RTCPeerConnection(), the registry snapshot under camera_lock (or
\* VIDEO_DEVICES), the loop that opens one track per source, and the check
\* for no track: all without an await
HandlerSetup ==
  /\ hpc = "start"
  /\ server = "ip" => camera_lock = LockFree
  /\ LET cams == IF server = "ip" THEN Snapshot(discovered_cameras) ELSE VIDEO_DEVICES
     IN  \E ok \in [DOMAIN cams -> BOOLEAN] :
           LET tracks == AttachedTracks(ok)
               on(i) == \E k \in DOMAIN tracks : tracks[k] = i
           IN  /\ cameras_to_use' = cams
               /\ opened' = ok
               /\ video_tracks' = tracks
               /\ trackPhase' = [i \in TrackIds |-> IF on(i) THEN "idle" ELSE "none"]
               /\ capOpen' = [i \in TrackIds |-> on(i)]
               /\ IF NoSourcesReturn(server, tracks)
                  THEN /\ Enter("Closed")
                       /\ endReason' = "NoSourcesAvailable"
                       /\ hpc' = ReturnInsideTry
                  ELSE /\ hpc' = "createOffer"
                       /\ UNCHANGED << sessionState, history, endReason >>
  /\ UNCHANGED << server, serviceVars, scanVars, signalingState, processed, offersSent, pcClosed,
                  viewerVars, released, timestamp, pts, failures, frames >>

\* offer = await pc.createOffer(); await pc.setLocalDescription(offer)
HandlerCreateOffer ==
  /\ hpc = "createOffer"
  /\ \E outcome \in CreateOfferOutcomes(video_tracks) :
       IF outcome = "ok"
       THEN /\ signalingState' = "have-local-offer"
            /\ Enter("OfferCreated")
            /\ hpc' = "sendOffer"
            /\ UNCHANGED endReason
       ELSE /\ Fail("error")
            /\ UNCHANGED signalingState
  /\ UNCHANGED << server, serviceVars, scanVars, cameras_to_use, opened, video_tracks, processed,
                  offersSent, pcClosed, viewerVars, trackVars >>

\* await websocket.send(offer): raises when the viewer has closed the channel
HandlerSendOffer ==
  /\ hpc = "sendOffer"
  /\ IF peerClosed
     THEN /\ Fail("error")
          /\ UNCHANGED offersSent
     ELSE /\ offersSent' = offersSent + 1
          /\ Enter("AwaitingAnswer")
          /\ hpc' = "loop"
          /\ UNCHANGED endReason
  /\ UNCHANGED << server, serviceVars, scanVars, cameras_to_use, opened, video_tracks,
                  signalingState, processed, pcClosed, viewerVars, trackVars >>

\* a handler that reads messages from the moment its tracks are set up
MessageLoopFromSetup == {"createOffer", "sendOffer", "loop"}

\* where the handler reads messages: in the `async for` that follows the
\* send of the offer
MessageLoopPositions == {"loop"}

\* one iteration of `async for message in websocket`
HandlerMessage ==
  /\ hpc \in MessageLoopPositions
  /\ inbox # << >>
  /\ EventLoopFree
  /\ LET msg == Head(inbox)
         effect == MessageEffect(msg.action, signalingState)
         entry(applied) == [action |-> msg.action, early |-> msg.early,
                            at |-> sessionState, applied |-> applied]
     IN  /\ inbox' = Tail(inbox)
         /\ CASE effect = "raise" ->
                   /\ Fail("error")
                   /\ processed' = Append(processed, entry(FALSE))
                   /\ UNCHANGED signalingState
              [] effect = "apply" ->
                   /\ signalingState' = "stable"
                   /\ Enter("Connected")
                   /\ processed' = Append(processed, entry(TRUE))
                   /\ UNCHANGED << hpc, endReason >>
              [] effect = "ice" ->
                   /\ processed' = Append(processed, entry(FALSE))
                   /\ \E outcome \in {"ok", "raise"} :
                        IF outcome = "ok"
                        THEN UNCHANGED << hpc, endReason, sessionState, history >>
                        ELSE Fail("error")
                   /\ UNCHANGED signalingState
              [] effect = "break" ->
                   /\ Enter("Closed")
                   /\ endReason' = "bye"
                   /\ hpc' = AfterBye
                   /\ processed' = Append(processed, entry(FALSE))
                   /\ UNCHANGED signalingState
              [] effect = "ignore" ->
                   /\ processed' = Append(processed, entry(FALSE))
                   /\ UNCHANGED << hpc, endReason, sessionState, history, signalingState >>
  /\ UNCHANGED << server, serviceVars, scanVars, cameras_to_use, opened, video_tracks, offersSent,
                  pcClosed, peerClosed, sent, trackVars >>

\* the viewer closed the channel and every message was read: the loop ends
HandlerChannelClosed ==
  /\ hpc = "loop"
  /\ inbox = << >>
  /\ peerClosed
  /\ Enter("Closed")
  /\ endReason' = "channel_closed"
  /\ hpc' = "closing"
  /\ UNCHANGED << server, serviceVars, scanVars, cameras_to_use, opened, video_tracks,
                  signalingState, processed, offersSent, pcClosed, viewerVars, trackVars >>

\* finally: await pc.close(); the handler returns
HandlerClose ==
  /\ hpc = "closing"
  /\ pcClosed' = pcClosed + 1
  /\ hpc' = "done"
  /\ UNCHANGED << server, serviceVars, scanVars, cameras_to_use, opened, video_tracks,
                  signalingState, sessionState, history, endReason, processed,
                  offersSent, viewerVars, trackVars >>

(***************************************************************************)
(* The viewer.                                                             *)
(***************************************************************************)
\* a message is queued by the channel until the handler reads it; `early`
\* records that it was sent before the handler sent its offer
ViewerSendOf(kinds) ==
  /\ ~peerClosed
  /\ hpc # "done"
  /\ sent < MaxMsgs
  /\ \E a \in kinds :
       inbox' = Append(inbox, [action |-> a, early |-> (offersSent = 0)])
  /\ sent' = sent + 1
  /\ UNCHANGED << server, serviceVars, scanVars, handlerVars, peerClosed, trackVars >>

ViewerSend == ViewerSendOf(MsgKinds)

\* a viewer that keeps to the protocol
ViewerSendWellFormed == ViewerSendOf({"answer", "bye"})

ViewerClose ==
  /\ ~peerClosed
  /\ hpc # "done"
  /\ peerClosed' = TRUE
  /\ UNCHANGED << server, serviceVars, scanVars, handlerVars, inbox, sent, trackVars >>

(***************************************************************************)
(* IPVideoTrack / USBVideoTrack: recv is called by the sender of the       *)
(* connection, one call at a time per track, once the answer was applied   *)
(* and until pc.close().                                                   *)
(***************************************************************************)
Streaming ==
  /\ pcClosed = 0
  /\ \E k \in DOMAIN history : history[k] = "Connected"

\* self.next_timestamp(): the track's clock advances by one nominal frame
\* interval per call (the unit of pts here)
NextTimestamp(ts) == ts + 1

\* a retry that restarts the track's clock
RetryTimestampRestart(ts) == 0

\* the timestamp of a retry: `return await self.recv()` starts recv again,
\* which takes the next timestamp before it reads
RetryTimestamp(ts) == NextTimestamp(ts)

\* recv is entered: pts, time_base = await self.next_timestamp(); the read
\* is handed to the executor
RecvStart(i) ==
  /\ Streaming
  /\ trackPhase[i] = "idle"
  /\ EventLoopFree
  /\ timestamp[i] < MaxTicks
  /\ timestamp' = [timestamp EXCEPT ![i] = NextTimestamp(@)]
  /\ pts' = [pts EXCEPT ![i] = NextTimestamp(timestamp[i])]
  /\ failures' = [failures EXCEPT ![i] = 0]
  /\ trackPhase' = [trackPhase EXCEPT ![i] = "reading"]
  /\ UNCHANGED << server, serviceVars, scanVars, handlerVars, viewerVars, capOpen,
                  released, frames >>

\* cap.read returned a frame: it is stamped with pts and returned through
\* every pending recv
ReadOk(i) ==
  /\ Streaming
  /\ trackPhase[i] = "reading"
  /\ frames' = [frames EXCEPT ![i] = Append(@, pts[i])]
  /\ failures' = [failures EXCEPT ![i] = 0]
  /\ trackPhase' = [trackPhase EXCEPT ![i] = "idle"]
  /\ UNCHANGED << server, serviceVars, scanVars, handlerVars, viewerVars, capOpen, released,
                  timestamp, pts >>

\* cap.read failed: sleep 33 ms, then `return await self.recv()`
ReadFail(i) ==
  /\ Streaming
  /\ trackPhase[i] = "reading"
  /\ timestamp[i] < MaxTicks
  /\ failures' = [failures EXCEPT ![i] = @ + 1]
  /\ timestamp' = [timestamp EXCEPT ![i] = RetryTimestamp(@)]
  /\ pts' = [pts EXCEPT ![i] = RetryTimestamp(timestamp[i])]
  /\ UNCHANGED << server, serviceVars, scanVars, handlerVars, viewerVars, trackPhase, capOpen,
                  released, frames >>

\* the recv calls of track i that are pending, one inside the other: the
\* call of the sender, and one `return await self.recv()` for every read
\* that has failed since
PendingRecvCalls(i) == IF trackPhase[i] = "reading" THEN 1 + failures[i] ELSE 0

\* __del__: when the track object is collected after the handler returned,
\* `if self.cap.isOpened(): self.cap.release()`
TrackDel(i) ==
  /\ hpc = "done"
  /\ capOpen[i]
  /\ released' = [released EXCEPT ![i] = @ + 1]
  /\ capOpen' = [capOpen EXCEPT ![i] = FALSE]
  /\ UNCHANGED << server, serviceVars, scanVars, handlerVars, viewerVars, trackPhase, timestamp,
                  pts, failures, frames >>

(***************************************************************************)
(* The Flask application of server_ip_camera.py: the URL rules the         *)
(* @app.route decorators register, and how a request is dispatched.        *)
(***************************************************************************)
\* HTTP requests in the log
MaxRequests == 2

Route(rule, methods, endpoint) ==
  [rule |-> rule, methods |-> methods, endpoint |-> endpoint]

\* one entry per @app.route decorator, in file order
Routes ==
  { Route("/metrics", {"GET"}, "get_metrics"),
    Route("/cameras", {"GET"}, "get_cameras"),
    Route("/cameras/rescan", {"POST"}, "rescan_cameras"),
    Route("/cameras/scan_status", {"GET"}, "get_scan_status"),
    Route("/download_logs", {"GET"}, "download_logs"),
    Route("/test-connection", {"GET", "POST", "OPTIONS"}, "test_connection"),
    Route("/ping", {"GET"}, "ping"),
    Route("/system-info", {"GET"}, "get_system_info"),
    Route("/network-info", {"GET"}, "get_network_info"),
    Route("/", {"GET"}, "get_info") }

\* the paths of the "endpoints" listing get_info returns
AdvertisedPaths ==
  { "/metrics", "/cameras", "/cameras/rescan", "/cameras/scan_status", "/status",
    "/test-connection", "/ping", "/system-info", "/download_logs" }

\* the paths test_connection.py sends a GET to
ClientPaths == { "/ping", "/status", "/test-connection", "/system-info" }

RequestPaths == AdvertisedPaths \cup ClientPaths \cup { "/", "/network-info" }
RequestMethods == { "GET", "POST" }

NoEndpoint == "none"

\* the view function Flask's URL map selects: none when no rule has the path
\* (404 Not Found) or none of its rules allows the method (405)
Dispatch(path, method) ==
  LET byPath == {r \in Routes : r.rule = path}
      byMethod == {r \in byPath : method \in r.methods}
  IN  IF byPath = {} THEN [endpoint |-> NoEndpoint, status |-> 404]
      ELSE IF byMethod = {} THEN [endpoint |-> NoEndpoint, status |-> 405]
      ELSE [endpoint |-> (CHOOSE r \in byMethod : TRUE).endpoint, status |-> 200]

\* the statuses a view function returns: 200, the 404 of an empty history,
\* or the 500 of its own `except` branch
EndpointStatuses(endpoint) ==
  CASE endpoint \in {"get_metrics"} -> {200, 404}
    [] endpoint \in {"download_logs"} -> {200, 404, 500}
    [] endpoint \in {"test_connection", "get_system_info", "get_network_info"} -> {200, 500}
    [] OTHER -> {200}

\* one request answered by the Flask application
HttpRequest ==
  /\ Len(request_log) < MaxRequests
  /\ \E path \in RequestPaths, method \in RequestMethods :
       LET d == Dispatch(path, method)
       IN  \E status \in (IF d.endpoint = NoEndpoint THEN {d.status}
                          ELSE EndpointStatuses(d.endpoint)) :
             request_log' = Append(request_log,
                [path |-> path, method |-> method, endpoint |-> d.endpoint,
                 status |-> status])
  /\ UNCHANGED << probe_log, revalidation_log, scan_faults, pending_probe, silences,
                  data_lock, lock_pc, telemetryVars, scan_status, frame_shape,
                  forwarded_shape, probe_input, probe_accepted >>
  /\ UNCHANGED << server, scanVars, handlerVars, viewerVars, trackVars >>

(***************************************************************************)
(* The resize of recv.  `int(height * (new_width / width))` is computed in *)
(* binary64: the quotient of the two integers is rounded to 53 significant *)
(* bits, the product with height is rounded again, and int() truncates.    *)
(* Significands are sequences of bits, least significant first.            *)
(***************************************************************************)
\* the frame sizes a source may deliver
FrameWidths == {320, 640, 641, 704, 716, 800, 805, 960, 1024, 1280, 1920}
FrameHeights == {161, 240, 288, 360, 480, 537, 576, 600, 720, 1080}

\* bits of the significand of a binary64
SignificandBits == 53
\* bits of one limb of a long multiplication
LimbBits == 15

\* the binary digits of a natural number, least significant first
RECURSIVE BitsOf(_)
BitsOf(n) == IF n = 0 THEN << >> ELSE << n % 2 >> \o BitsOf(n \div 2)

\* the natural number of a (short) sequence of bits
RECURSIVE NatOf(_)
NatOf(bits) == IF bits = << >> THEN 0 ELSE Head(bits) + 2 * NatOf(Tail(bits))

\* bits without the zeros at its most significant end
Trimmed(bits) ==
  LET ones == {k \in DOMAIN bits : bits[k] = 1}
  IN  IF ones = {} THEN << >>
      ELSE SubSeq(bits, 1, CHOOSE k \in ones : \A j \in ones : j <= k)

\* bits + 1: the lowest 0 becomes 1 and the 1s below it become 0
Increment(bits) ==
  LET zeros == {k \in DOMAIN bits : bits[k] = 0}
      low == CHOOSE k \in zeros : \A j \in zeros : k <= j
  IN  IF zeros = {} THEN [k \in 1..(Len(bits) + 1) |-> IF k = Len(bits) + 1 THEN 1 ELSE 0]
      ELSE [k \in DOMAIN bits |-> IF k < low THEN 0 ELSE IF k = low THEN 1 ELSE bits[k]]

\* the limbs of LimbBits bits of a sequence of bits, least significant first
LimbsOf(bits) ==
  [j \in 1..((Len(bits) + LimbBits - 1) \div LimbBits) |->
     NatOf(SubSeq(bits, LimbBits * (j - 1) + 1,
                  IF LimbBits * j <= Len(bits) THEN LimbBits * j ELSE Len(bits)))]

\* limbs * h + carry, for a small h: the schoolbook multiplication
RECURSIVE LimbsTimesSmall(_, _, _)
LimbsTimesSmall(limbs, h, carry) ==
  IF limbs = << >> THEN << carry >>
  ELSE << (Head(limbs) * h + carry) % (2 ^ LimbBits) >>
         \o LimbsTimesSmall(Tail(limbs), h, (Head(limbs) * h + carry) \div (2 ^ LimbBits))

\* the bits of a sequence of limbs
BitsOfLimbs(limbs) ==
  Trimmed([k \in 1..(LimbBits * Len(limbs)) |->
             (limbs[((k - 1) \div LimbBits) + 1] \div (2 ^ ((k - 1) % LimbBits))) % 2])

\* bits * h, for a small h
TimesSmall(bits, h) == BitsOfLimbs(LimbsTimesSmall(LimbsOf(bits), h, 0))

\* 2^k modulo b, by repeated squaring
RECURSIVE PowerOfTwoMod(_, _)
PowerOfTwoMod(k, b) ==
  IF k = 0 THEN 1 % b
  ELSE LET half == PowerOfTwoMod(k \div 2, b)
       IN  (((half * half) % b) * (IF k % 2 = 1 THEN 2 ELSE 1)) % b

\* long division of a by b (a < b): the remainder after k binary digits of
\* the quotient, and the k-th digit after the binary point
RemainderAt(a, b, k) == (a * PowerOfTwoMod(k, b)) % b
QuotientBit(a, b, k) == IF 2 * RemainderAt(a, b, k - 1) >= b THEN 1 ELSE 0

\* the position of the first 1 after the binary point of a / b (a < b)
RECURSIVE LeadingPosition(_, _)
LeadingPosition(a, b) == IF 2 * a >= b THEN 1 ELSE 1 + LeadingPosition(2 * a, b)

\* round-to-nearest-even of the integer `bits` with `drop` low bits cut off:
\* the kept bits, plus one when the cut part is more than half, or exactly
\* half and the kept part is odd
RoundOff(bits, drop) ==
  LET kept == SubSeq(bits, drop + 1, Len(bits))
      guard == bits[drop]
      sticky == \E k \in 1..(drop - 1) : bits[k] = 1
  IN  IF drop = 0 THEN bits
      ELSE IF guard = 1 /\ (sticky \/ kept[1] = 1) THEN Increment(kept)
      ELSE kept

\* the binary64 nearest to a / b for integers 0 < a < b: the value is
\* NatOf(sig) / 2^scale
FloatQuotient(a, b) ==
  LET lead == LeadingPosition(a, b)
      last == lead + SignificandBits - 1
      \* a sticky bit for the remainder, the guard digit, and the 53 digits
      \* of the significand from the last one up to the leading 1
      wide == [k \in 1..(SignificandBits + 2) |->
                 IF k = 1 THEN (IF RemainderAt(a, b, last + 1) = 0 THEN 0 ELSE 1)
                 ELSE QuotientBit(a, b, last + 3 - k)]
  IN  [sig |-> RoundOff(wide, 2), scale |-> last]

\* the binary64 product of the integer h and the binary64 x
FloatTimesInt(h, x) ==
  LET exact == TimesSmall(x.sig, h)
      drop == IF Len(exact) > SignificandBits THEN Len(exact) - SignificandBits ELSE 0
  IN  [sig |-> RoundOff(exact, drop), scale |-> x.scale - drop]

\* int(x) of a positive binary64 below 2^31: the bits above the binary point
FloatToInt(x) ==
  IF x.scale >= Len(x.sig) THEN 0
  ELSE NatOf(SubSeq(x.sig, x.scale + 1, Len(x.sig)))

\* the width recv resizes to
new_width == 640

\* new_height = int(height * (new_width / width)), for width > new_width
NewHeight(height, width) ==
  FloatToInt(FloatTimesInt(height, FloatQuotient(new_width, width)))

\* the shape of the frame recv forwards for a source frame (height, width)
ForwardedShape(height, width) ==
  IF width > new_width THEN << NewHeight(height, width), new_width >>
  ELSE << height, width >>

\* recv, from the frame it read to the frame it returns
RecvResize ==
  /\ \E height \in FrameHeights, width \in FrameWidths :
       /\ frame_shape' = << height, width >>
       /\ forwarded_shape' = ForwardedShape(height, width)
  /\ UNCHANGED << probe_log, revalidation_log, scan_faults, pending_probe, silences,
                  data_lock, lock_pc, telemetryVars, scan_status, request_log, probe_input,
                  probe_accepted >>
  /\ UNCHANGED << server, scanVars, handlerVars, viewerVars, trackVars >>

(***************************************************************************)
(* The test test_camera_stream applies to one URL: what the device at the  *)
(* URL does, and whether the URL is returned.                              *)
(***************************************************************************)
\* status codes a device may answer a GET with
HttpStatuses == {200, 201, 204, 206, 401, 404, 500}

\* Content-Type values, as the runs of characters between separators; the
\* empty sequence is a response without the header
ContentTypes ==
  { << >>,
    << "multipart", "/", "x-mixed-replace" >>,
    << "image", "/", "jpeg" >>,
    << "IMAGE", "/", "JPEG" >>,
    << "video", "/", "mp4" >>,
    << "text", "/", "html" >>,
    << "application", "/", "json" >>,
    << "application", "/", "octet-stream" >> }

\* next(response.iter_content(chunk_size=1024), None): no chunk at all, an
\* empty chunk, or data
Chunks == {"none", "empty", "data"}

\* the outcome of one cap.read(): a frame, an empty frame, or ret = False
ReadOutcomes == {"frame", "empty", "fail"}

\* `for _ in range(3)`
RtspReadAttempts == 3

\* str.lower() on the runs of a header value
Lower(value) ==
  [k \in DOMAIN value |->
     CASE value[k] = "IMAGE" -> "image"
       [] value[k] = "JPEG" -> "jpeg"
       [] OTHER -> value[k]]

\* any(ct in content_type for ct in ['multipart', 'image', 'video'])
IsStreamContentType(content_type) ==
  \E ct \in {"multipart", "image", "video"} :
    \E k \in DOMAIN content_type : content_type[k] = ct

\* a status test that takes every 2xx answer
HttpStatusAny2xx(status) == status \div 100 = 2

\* `if response.status_code == 200`
HttpStatusOk(status) == status = 200

\* the HTTP/HTTPS branch: TRUE when `return url, 'mjpeg'` is reached; a
\* request that raises moves on to the next URL
HttpAccepts(device) ==
  /\ ~device.raises
  /\ HttpStatusOk(device.status)
  /\ IsStreamContentType(Lower(device.content_type))
  /\ device.chunk = "data"

\* the RTSP branch: TRUE when `return url, 'rtsp'` is reached, which is at
\* the first of the reads that gives a non-empty frame
RtspAccepts(device) ==
  /\ ~device.raises
  /\ device.opened
  /\ \E k \in 1..RtspReadAttempts : device.reads[k] = "frame"

\* one http:// or https:// URL is tested
ProbeHttp ==
  /\ \E raises \in BOOLEAN, status \in HttpStatuses, content_type \in ContentTypes,
        chunk \in Chunks :
       LET device == [kind |-> "http", raises |-> raises, status |-> status,
                      content_type |-> content_type, chunk |-> chunk]
       IN  /\ probe_input' = device
           /\ probe_accepted' = HttpAccepts(device)
  /\ UNCHANGED << probe_log, revalidation_log, scan_faults, pending_probe, silences,
                  data_lock, lock_pc, telemetryVars, scan_status, request_log, frame_shape,
                  forwarded_shape >>
  /\ UNCHANGED << server, scanVars, handlerVars, viewerVars, trackVars >>

\* one rtsp:// URL is tested
ProbeRtsp ==
  /\ \E raises \in BOOLEAN, is_opened \in BOOLEAN,
        reads \in [1..RtspReadAttempts -> ReadOutcomes] :
       LET device == [kind |-> "rtsp", raises |-> raises, opened |-> is_opened,
                      reads |-> reads]
       IN  /\ probe_input' = device
           /\ probe_accepted' = RtspAccepts(device)
  /\ UNCHANGED << probe_log, revalidation_log, scan_faults, pending_probe, silences,
                  data_lock, lock_pc, telemetryVars, scan_status, request_log, frame_shape,
                  forwarded_shape >>
  /\ UNCHANGED << server, scanVars, handlerVars, viewerVars, trackVars >>

ProbeNext == ProbeHttp \/ ProbeRtsp

ScanNext ==
  \/ \E s \in Scans : ScanNetworkUnavailable(s)
  \/ \E s \in Scans : ScanSweep(s)
  \/ \E s \in Scans : ScanRevalidate(s)
  \/ \E s \in Scans : ScanPublish(s)
  \/ \E s \in Scans : RescanStart(s)
  \/ \E s \in Scans : RescanRespond(s)
  \/ \E r \in Readers : ReaderAcquire(r)
  \/ \E r \in Readers : ReaderCount(r)
  \/ \E r \in Readers : ReaderRespond(r)

HandlerNext ==
  \/ HandlerSetup
  \/ HandlerCreateOffer
  \/ HandlerSendOffer
  \/ HandlerMessage
  \/ HandlerChannelClosed
  \/ HandlerClose

PumpNext ==
  \/ \E i \in TrackIds : RecvStart(i)
  \/ \E i \in TrackIds : ReadOk(i)
  \/ \E i \in TrackIds : ReadFail(i)

\* signaling: the handler, any viewer, and the collection of the tracks
SessionNext ==
  \/ HandlerNext
  \/ ViewerSend
  \/ ViewerClose
  \/ \E i \in TrackIds : TrackDel(i)

\* streaming: the handler, a viewer that keeps to the protocol, and the
\* frame pumps of the tracks
StreamNext ==
  \/ HandlerNext
  \/ ViewerSendWellFormed
  \/ ViewerClose
  \/ PumpNext

\* the requests that read the registry while a viewer connects
ReadersNext ==
  \/ \E r \in Readers : ReaderAcquire(r)
  \/ \E r \in Readers : ReaderCount(r)
  \/ \E r \in Readers : ReaderRespond(r)
  \/ GetScanStatus
  \/ HandlerNext
  \/ ViewerSendWellFormed
  \/ ViewerClose

\* one discovery cycle on a network whose hosts may stop responding
SilentHostNext ==
  \/ \E s \in Scans : ScanNetworkUnavailable(s)
  \/ \E s \in Scans : ScanSweep(s)
  \/ \E s \in Scans : ScanRevalidate(s)
  \/ \E s \in Scans : ScanPublish(s)
  \/ \E s \in Scans : HostGoesSilent(s)
  \/ \E s \in Scans : ProbeTimesOut(s)
  \/ \E s \in Scans : ProbeReturnsUntimed(s)

\* the threads of the scan keep running and every timeout that was set
\* expires; nothing makes a call without timeout return
SilentHostSpec ==
  /\ Init
  /\ [][SilentHostNext]_vars
  /\ \A s \in Scans : WF_vars(ScanNetworkUnavailable(s) \/ ScanSweep(s))
  /\ \A s \in Scans : WF_vars(ScanRevalidate(s))
  /\ \A s \in Scans : WF_vars(ScanPublish(s))
  /\ \A s \in Scans : WF_vars(ProbeTimesOut(s))

Next ==
  \/ ScanNext
  \/ TelemetryNext
  \/ LockNext
  \/ SilentHostNext
  \/ \E s \in Scans : TracedSweep(s)
  \/ \E s \in Scans : TracedRevalidate(s)
  \/ SessionNext
  \/ PumpNext
  \/ GetScanStatus
  \/ HttpRequest
  \/ RecvResize
  \/ ProbeNext

Spec == Init /\ [][Next]_vars

\* discovery and the readers of the registry, no viewer connected
ScanSpec == Init /\ [][ScanNext]_vars

\* the registry a first scan publishes when the hosts of host_order stream
\* on every live URL
RegistryOf(host_order) ==
  LET works == LiveUrls(Range(host_order), ScanPorts)
      ports == [h \in Range(host_order) |-> CHOOSE o \in Orders(ScanPorts) : TRUE]
  IN  Revalidate(SweepHosts(host_order, ports, works, 1), works)

\* the IP camera server once its startup scan has published `registry`
StartupScanPublished(registry) ==
  /\ discovered_cameras = registry
  /\ validated_cameras = [s \in Scans |-> IF s = 1 THEN registry ELSE << >>]
  /\ revalidated_urls =
       [s \in Scans |-> IF s = 1 THEN [k \in DOMAIN registry |-> registry[k].url]
                                 ELSE << >>]
  /\ returned = [s \in Scans |-> IF s = 1 THEN ListOf(registry) ELSE NotReturned]
  /\ camera_lock = LockFree
  /\ scanPc = [s \in Scans |-> IF s = 1 THEN "done" ELSE "unstarted"]
  /\ probed = [s \in Scans |-> IF s = 1
                                THEN Hosts \cup {c.ip : c \in Range(registry)}
                                ELSE {}]
  /\ rescanPc = [s \in Scans |-> "none"]
  /\ cameras_found = [s \in Scans |-> << >>]
  /\ readerPc = [r \in Readers |-> "idle"]
  /\ readerCount = [r \in Readers |-> 0]
  /\ response = [r \in Readers |-> NoResponse]

\* a viewer connects to the USB server, or to the IP camera server after
\* its startup scan has published
SessionInit ==
  /\ SessionVarsInit
  /\ ServiceInit
  /\ \/ /\ server = "usb"
        /\ ScanInit
     \/ /\ server = "ip"
        /\ \E H \in SUBSET Hosts : \E host_order \in Orders(H) :
             StartupScanPublished(RegistryOf(host_order))

SessionSpec == SessionInit /\ [][SessionNext]_vars

\* the stream tests of single URLs
ProbeSpec == Init /\ [][ProbeNext]_vars

\* the frames a track forwards
FrameSpec == Init /\ [][RecvResize]_vars

\* the HTTP interface of the IP camera server
HttpSpec == Init /\ [][HttpRequest]_vars

\* the registry exists on the IP camera server only
ReadersInit == SessionInit /\ server = "ip"

ReadersSpec == ReadersInit /\ [][ReadersNext]_vars

\* the IP camera server after its startup scan has published: rescans are
\* requested and run while requests read the registry
RescanNext ==
  \/ \E s \in Scans : RescanStart(s)
  \/ \E s \in Scans : RescanRespond(s)
  \/ \E s \in Scans : ScanNetworkUnavailable(s)
  \/ \E s \in Scans : ScanSweep(s)
  \/ \E s \in Scans : ScanRevalidate(s)
  \/ \E s \in Scans : ScanPublish(s)
  \/ \E r \in Readers : ReaderAcquire(r)
  \/ \E r \in Readers : ReaderCount(r)
  \/ \E r \in Readers : ReaderRespond(r)

\* Rescans under the scheduling the program gives them.  Every probe of a
\* scan has a timeout (ping 2 s, connect 3 s, GET 5 s / 3 s) and the pools are
\* joined, so a running scan thread takes its next step; a request that
\* holds camera_lock finishes; camera_lock is free again and again, and a
\* scan that waits for it gets it at one of those times.
LiveScanSpec ==
  /\ ReadersInit
  /\ [][RescanNext]_vars
  /\ \A s \in Scans : WF_vars(ScanNetworkUnavailable(s) \/ ScanSweep(s))
  /\ \A s \in Scans : WF_vars(ScanRevalidate(s))
  /\ \A s \in Scans : SF_vars(ScanPublish(s))
  /\ \A r \in Readers : WF_vars(ReaderCount(r) \/ ReaderRespond(r))


\* one discovery cycle alone, its first pass traced probe by probe
FirstPassNext ==
  \/ \E s \in Scans : ScanNetworkUnavailable(s)
  \/ \E s \in Scans : TracedSweep(s)
  \/ \E s \in Scans : TracedRevalidate(s)
  \/ \E s \in Scans : ScanPublish(s)

FirstPassSpec == Init /\ [][FirstPassNext]_vars

\* a network with more cameras than a session uses
MaxCameraHosts == 3
CameraHosts == 1..MaxCameraHosts

\* a viewer connects after the startup scan has published the cameras of
\* such a network
SnapshotInit ==
  /\ SessionVarsInit
  /\ ServiceInit
  /\ server = "ip"
  /\ \E host_order \in Orders(CameraHosts) :
       StartupScanPublished(RegistryOf(host_order))

\* a session that sets up, sends its offer and ends while rescans run and
\* publish
SnapshotNext ==
  \/ HandlerSetup
  \/ HandlerCreateOffer
  \/ HandlerSendOffer
  \/ HandlerChannelClosed
  \/ HandlerClose
  \/ ViewerClose
  \/ \E s \in Scans : RescanStart(s)
  \/ \E s \in Scans : RescanRespond(s)
  \/ \E s \in Scans : ScanNetworkUnavailable(s)
  \/ \E s \in Scans : ScanSweep(s)
  \/ \E s \in Scans : ScanRevalidate(s)
  \/ \E s \in Scans : ScanPublish(s)

SnapshotSpec == SnapshotInit /\ [][SnapshotNext]_vars

\* The threads that take the locks, under the scheduling the program gives
\* them: a thread inside a with block runs to its end (no blocking call is
\* made under a lock), and a thread that waits for a lock that is freed
\* again and again gets it at one of those times.
LockSpec ==
  /\ Init
  /\ [][LockNext]_vars
  /\ \A t \in LockThreads : SF_vars(LockAcquire(t))
  /\ \A t \in LockThreads : WF_vars(LockRelease(t))

\* the telemetry monitor and the requests for its latest sample
TelemetrySpec == Init /\ [][TelemetryNext]_vars

StreamSpec == SessionInit /\ [][StreamNext]_vars

(***************************************************************************)
(* Properties.                                                             *)
(***************************************************************************)
\* C1: every camera of the published registry is a candidate (its url) that
\* passed the first-find pass and passed again in the revalidation pass of
\* the scan that published it.
C1_PublishedPassedBothPasses ==
  \A k \in DOMAIN discovered_cameras :
    LET camera == discovered_cameras[k]
        s == camera.discovered_at
    IN  \E j \in DOMAIN validated_cameras[s] :
          /\ validated_cameras[s][j] = camera
          /\ revalidated_urls[s][j] = camera.url

\* a registry value is whole: the initial empty registry, or the complete
\* validated list of one scan that has finished
IsSnapshot(cameras) ==
  \/ cameras = << >>
  \/ \E s \in Scans : scanPc[s] = "done" /\ cameras = validated_cameras[s]

\* C2: the registry, and what any reader is answered, is always the prior
\* snapshot or the complete validated list of exactly one scan, never a mix
\* of two scans or a partial list; the count a reader is given is the length
\* of the list it is given.
C2_RegistryIsWholeSnapshot ==
  /\ IsSnapshot(discovered_cameras)
  /\ \A k \in DOMAIN discovered_cameras :
       discovered_cameras[k].discovered_at = discovered_cameras[1].discovered_at
  /\ \A r \in Readers :
       /\ IsSnapshot(response[r].cameras)
       /\ response[r].cameras_found = Len(response[r].cameras)

\* a reader is between its two reads of a two-camera registry published by
\* one scan while another scan, with a different validated list, waits to
\* publish, and the reader was answered a different snapshot before
C2_Witness ==
  \E s1, s2 \in Scans, r \in Readers :
    /\ s1 # s2
    /\ scanPc[s1] = "done"
    /\ discovered_cameras = validated_cameras[s1]
    /\ Len(discovered_cameras) = 2
    /\ scanPc[s2] = "validated"
    /\ validated_cameras[s2] # << >>
    /\ readerPc[r] = "counted"
    /\ response[r].cameras # discovered_cameras

Lifecycle == << "New", "OfferCreated", "AwaitingAnswer", "Connected" >>

IsPrefix(p, q) == Len(p) <= Len(q) /\ \A k \in DOMAIN p : p[k] = q[k]

\* C3: the states a session passes through are a prefix of New,
\* OfferCreated, AwaitingAnswer, Connected, optionally followed by exactly
\* one of Closed or Failed; no state is entered again.
C3_StateSequenceIsLifecyclePrefix ==
  \/ IsPrefix(history, Lifecycle)
  \/ /\ Len(history) >= 2
     /\ history[Len(history)] \in {"Closed", "Failed"}
     /\ IsPrefix(SubSeq(history, 1, Len(history) - 1), Lifecycle)

\* a session went through the four states, then read a second answer while
\* Connected and ended
C3_Witness ==
  /\ history = Lifecycle \o << "Failed" >>
  /\ \E k \in DOMAIN processed :
       processed[k].action = "answer" /\ processed[k].at = "Connected"

\* C4: when the handler of the IP camera server has returned (the session
\* is closed), the source of every track the session opened has been
\* released exactly once.
C4_SourcesReleasedOnClose ==
  (server = "ip" /\ hpc = "done") => \A k \in DOMAIN video_tracks : released[video_tracks[k]] = 1

\* the number of consecutive failed reads after which C5 wants a track
\* degraded
RetryLimit == 2

\* C5: after RetryLimit consecutive failed reads of a track no further read
\* is attempted on it.
C5_NoReadAfterBoundedFailures ==
  \A i \in TrackIds : failures[i] >= RetryLimit => trackPhase[i] # "reading"

\* C6: an offer from the viewer, or an answer read while the session is
\* Connected, is not applied and leaves the session Failed.
C6_RenegotiationRejected ==
  \A k \in DOMAIN processed :
    (\/ processed[k].action = "offer"
     \/ processed[k].action = "answer" /\ processed[k].at = "Connected")
    => /\ ~processed[k].applied
       /\ sessionState = "Failed"

Malformed == {"garbage", "noaction", "answer_nodata", "unknown"}

\* C7: on the IP camera server a malformed message is the last message the
\* handler reads: the session is Failed and the handler is on its way out.
C7_MalformedIsProtocolError ==
  \A k \in DOMAIN processed :
    (server = "ip" /\ processed[k].action \in Malformed)
    => /\ k = Len(processed)
       /\ sessionState = "Failed"
       /\ hpc \in {"closing", "done"}

\* C8: on the IP camera server an answer the viewer sent before the session
\* sent its offer is never applied and leaves the session Failed.
C8_EarlyAnswerFails ==
  \A k \in DOMAIN processed :
    (server = "ip" /\ processed[k].action = "answer" /\ processed[k].early)
    => /\ ~processed[k].applied
       /\ sessionState = "Failed"

\* C9: the presentation timestamps of the frames a track delivers never
\* decrease, whatever reads fail and are retried in between.
C9_PtsNeverDecrease ==
  \A i \in TrackIds :
    \A j, k \in DOMAIN frames[i] : j < k => frames[i][j] <= frames[i][k]

\* a track delivered a frame, then failed a read, retried and delivered the
\* next frame with the timestamp of the retry
C9_Witness ==
  \E i \in TrackIds :
    /\ Len(frames[i]) >= 2
    /\ frames[i][2] > NextTimestamp(frames[i][1])

C13_ReadersNeverBlock ==
  \A r \in Readers :
    (server = "ip" /\ readerPc[r] \in {"locked", "counted"})
    => /\ ENABLED GetScanStatus
       /\ hpc = "start" => ENABLED HandlerSetup

\* C16: every call of scan_for_cameras that has returned gave its caller a
\* list of records with url, type, ip, port and path, the list it published.
C16_ScanReturnsPublishedList ==
  \A s \in Scans :
    scanPc[s] \in {"done", "failed"}
    => /\ returned[s].kind = "list"
       /\ \A k \in DOMAIN returned[s].cameras :
            {"url", "type", "ip", "port", "path"} \subseteq DOMAIN returned[s].cameras[k]
       /\ returned[s].cameras = validated_cameras[s]

C17_TestedEndpointsAreServed ==
  \A k \in DOMAIN request_log :
    (/\ request_log[k].method = "GET"
     /\ request_log[k].path \in AdvertisedPaths \cap ClientPaths)
    => /\ request_log[k].endpoint # NoEndpoint
       /\ request_log[k].status \in {200, 500}

\* C18: a frame wider than 640 is forwarded 640 wide with the height
\* floor(height * 640 / width); a frame of width 640 or less is forwarded
\* with its own shape.
C18_ResizeKeepsAspect ==
  frame_shape # NoShape =>
    LET height == frame_shape[1]
        width == frame_shape[2]
    IN  IF width > 640
        THEN forwarded_shape = << (height * 640) \div width, 640 >>
        ELSE forwarded_shape = frame_shape

\* C19: an RTSP URL is accepted exactly when the capture opened and all
\* three reads gave a non-empty frame.
C19_RtspNeedsThreeFrames ==
  probe_input.kind = "rtsp" =>
    (probe_accepted <=>
       /\ ~probe_input.raises
       /\ probe_input.opened
       /\ \A k \in 1..3 : probe_input.reads[k] = "frame")

\* C20 as amended: an HTTP/HTTPS URL is accepted exactly when the request
\* did not raise, the status is 200, the Content-Type (in lower case) names
\* multipart, image or video, and a first chunk was read and is not empty.
C20_HttpAcceptedOn200 ==
  probe_input.kind = "http" =>
    (probe_accepted <=>
       /\ ~probe_input.raises
       /\ probe_input.status = 200
       /\ \E k \in DOMAIN probe_input.content_type :
            probe_input.content_type[k] \in {"multipart", "image", "video", "IMAGE"}
       /\ probe_input.chunk = "data")

\* a 200 answer with an upper-case image type and data was accepted
C20_Witness ==
  /\ probe_input.kind = "http"
  /\ probe_input.status = 200
  /\ probe_input.content_type = << "IMAGE", "/", "JPEG" >>
  /\ probe_accepted

\* C20 as stated: an HTTP/HTTPS URL is accepted exactly when the status is
\* any 2xx, the Content-Type names multipart, image or video, and a first
\* chunk was read and is not empty.
C20_HttpAcceptedOn2xx ==
  (probe_input.kind = "http" /\ ~probe_input.raises) =>
    (probe_accepted <=>
       /\ probe_input.status \in 200..299
       /\ \E k \in DOMAIN probe_input.content_type :
            probe_input.content_type[k] \in {"multipart", "image", "video", "IMAGE"}
       /\ probe_input.chunk = "data")

\* the probes of probe_log sent to one (host, port), in order
ProbesOf(ip, port) == SelectSeq(probe_log, LAMBDA p : p.ip = ip /\ p.port = port)

\* the probes of the first pass that succeeded on a host whose
\* scan_host_ports call returned, in order
FirstPassHits ==
  SelectSeq(probe_log, LAMBDA p : p.hit /\ p.ip \notin scan_faults.hosts)

\* no two entries of a camera list share their (ip, port)
OnePerPort(cameras) ==
  \A i, j \in DOMAIN cameras :
    (cameras[i].ip = cameras[j].ip /\ cameras[i].port = cameras[j].port) => i = j

\* C21: in the first pass the probe that succeeds for a (host, port) is the
\* last probe sent to that port, standard or manufacturer-specific; every hit
\* on a host whose sweep returned is one camera of cameras_found and conversely; and neither
\* cameras_found nor a published registry holds two cameras of one
\* (host, port).
C21_FirstHitEndsPort ==
  /\ \A h \in Hosts, p \in ScanPorts :
       \A k \in DOMAIN ProbesOf(h, p) :
         ProbesOf(h, p)[k].hit => k = Len(ProbesOf(h, p))
  /\ \A s \in Scans : scanPc[s] = "found" =>
       /\ OnePerPort(cameras_found[s])
       /\ Len(cameras_found[s]) = Len(FirstPassHits)
       /\ \A i \in DOMAIN cameras_found[s] :
            /\ cameras_found[s][i].ip = FirstPassHits[i].ip
            /\ cameras_found[s][i].port = FirstPassHits[i].port
            /\ cameras_found[s][i].path = FirstPassHits[i].path
  /\ OnePerPort(discovered_cameras)

\* one host answered on the very first candidate and is in the published
\* registry, another answered only on a manufacturer path, which ended its
\* manufacturer loop before the remaining candidates
C21_Witness ==
  /\ discovered_cameras # << >>
  /\ \E h1, h2 \in Hosts, p \in ScanPorts :
       /\ Len(ProbesOf(h1, p)) = 1 /\ ProbesOf(h1, p)[1].hit
       /\ discovered_cameras[1].ip = h1 /\ discovered_cameras[1].port = p
       /\ Len(ProbesOf(h2, p)) > Len(StdPaths)
       /\ Len(ProbesOf(h2, p)) < Len(StdPaths) + Len(ManufacturerCandidates(p))
       /\ ProbesOf(h2, p)[Len(ProbesOf(h2, p))].hit

Candidate(q) == << q.ip, q.port, q.path >>

\* C22: a traced scan in which a probe of one streaming url, the sweep of one
\* host and the revalidation of one camera may each fail never dies: it goes
\* on to its next phase, a failed candidate is followed by the next candidate
\* of its port, every camera found on the other hosts is revalidated, and
\* what the scan publishes is exactly the cameras that passed both passes.
C22_FailuresDoNotAbortScan ==
  \A s \in Scans :
    /\ scanPc[s] # "aborted"
    /\ scanPc[s] = "found" => ENABLED TracedRevalidate(s)
    /\ scanPc[s] = "validated" => ENABLED ScanPublish(s)
    /\ scanPc[s] \in {"found", "validated", "done"} =>
         \A u \in scan_faults.urls :
           \A k \in DOMAIN ProbesOf(u.ip, u.port) :
             ProbesOf(u.ip, u.port)[k].path = u.path /\ ~ProbesOf(u.ip, u.port)[k].hit
             => \/ k < Len(ProbesOf(u.ip, u.port))
                \/ k = Len(StdPaths) + Len(ManufacturerCandidates(u.port))
    /\ scanPc[s] \in {"validated", "done"} =>
         /\ Len(revalidation_log) = Len(FirstPassHits)
         /\ \A k \in DOMAIN revalidation_log :
              Candidate(revalidation_log[k]) = Candidate(FirstPassHits[k])
         /\ {Candidate(c) : c \in Range(validated_cameras[s])}
              = {Candidate(q) : q \in {r \in Range(revalidation_log) : r.hit}}
    /\ scanPc[s] = "done" => discovered_cameras = validated_cameras[s]

\* a scan has published a camera although the probe of a streaming url
\* failed in its first pass and the revalidation of another camera failed
C22_Witness ==
  \E s \in Scans :
    /\ scanPc[s] = "done"
    /\ scan_faults.urls # {}
    /\ scan_faults.cameras # {}
    /\ discovered_cameras # << >>
    /\ \A c \in scan_faults.cameras : c.ip # discovered_cameras[1].ip

\* C23: every scan that has started ends, by publishing or by reporting that
\* the network is unavailable, even when probed hosts stop responding.
C23_EveryScanTerminates ==
  \A s \in Scans : scanPc[s] = "idle" ~> scanPc[s] \in {"done", "failed"}

\* C24: a read that fails and is retried leaves the number of nested pending
\* recv calls of its track as it was.
C24_RetryAddsNoNesting ==
  [][\A i \in TrackIds :
       (trackPhase[i] = "reading" /\ trackPhase'[i] = "reading")
       => PendingRecvCalls(i)' = PendingRecvCalls(i)]_vars

\* C25: the setup of a session takes the first MaxSessionCameras entries of
\* the registry of that moment, in registry order, and attaches tracks only
\* for entries of that snapshot, each at most once and in order; from then
\* on no step, a publication of a scan included, changes the snapshot or the
\* tracks of the session.
C25_SessionKeepsItsSnapshot ==
  [][/\ (hpc = "start" /\ hpc' # "start") =>
          /\ Len(cameras_to_use') <= MaxSessionCameras
          /\ Len(cameras_to_use') <= Len(discovered_cameras)
          /\ \A k \in DOMAIN cameras_to_use' : cameras_to_use'[k] = discovered_cameras[k]
          /\ Len(cameras_to_use') < MaxSessionCameras
               => Len(cameras_to_use') = Len(discovered_cameras)
          /\ Len(video_tracks') <= MaxSessionCameras
          /\ \A k \in DOMAIN video_tracks' : video_tracks'[k] \in DOMAIN cameras_to_use'
          /\ \A j, k \in DOMAIN video_tracks' : j < k => video_tracks'[j] < video_tracks'[k]
     /\ hpc # "start" => UNCHANGED << cameras_to_use, video_tracks >>]_vars

\* a session holds two tracks on the first two cameras of a three-camera
\* registry while the registry has since been replaced by a rescan
C25_Witness ==
  /\ hpc \notin {"start", "done"}
  /\ Len(cameras_to_use) = MaxSessionCameras
  /\ Len(video_tracks) = MaxSessionCameras
  /\ Len(validated_cameras[1]) > MaxSessionCameras
  /\ cameras_to_use = Snapshot(validated_cameras[1])
  /\ \E s \in Scans : s # 1 /\ scanPc[s] = "done" /\ discovered_cameras = validated_cameras[s]
  /\ Snapshot(discovered_cameras) # cameras_to_use

\* the discovery cycles that have been started, numbered in start order
StartedScans == {s \in Scans : scanPc[s] # "unstarted"}

\* C26: once every started cycle has finished, the registry holds the result
\* of the cycle that was started last (when that cycle published at all).
C26_LastStartedCycleWins ==
  LET last == CHOOSE s \in StartedScans : \A t \in StartedScans : t <= s
  IN  (/\ \A s \in StartedScans : scanPc[s] \in {"done", "failed"}
       /\ scanPc[last] = "done")
      => discovered_cameras = validated_cameras[last]

\* C27: pc.close() is never called twice, it has not been called while the
\* handler is still running, and a handler that has returned, whichever way
\* it left its try block (no source, an error, a bye, the channel closed),
\* has called it exactly once.
C27_PeerConnectionClosedOnce ==
  /\ pcClosed \in {0, 1}
  /\ hpc # "done" => pcClosed = 0
  /\ hpc = "done" =>
       /\ pcClosed = 1
       /\ endReason \in {"NoSourcesAvailable", "error", "bye", "channel_closed"}

\* the IP camera handler returned because no camera could be opened, and
\* had closed its connection
C27_Witness ==
  /\ server = "ip"
  /\ hpc = "done"
  /\ endReason = "NoSourcesAvailable"
  /\ video_tracks = << >>
  /\ pcClosed = 1

\* C28: the handler has sent at most one offer, and whenever it has read a
\* message of the viewer it had sent its offer before, also for the
\* messages the viewer sent before the offer.
C28_OfferBeforeMessages ==
  /\ offersSent \in {0, 1}
  /\ processed # << >> => offersSent = 1
  /\ \A k \in DOMAIN processed :
       processed[k].at \notin {"New", "OfferCreated"}

\* the viewer sent an answer before the offer was sent, and the handler
\* read it only after sending its offer
C28_Witness ==
  /\ offersSent = 1
  /\ \E k \in DOMAIN processed :
       /\ processed[k].early
       /\ processed[k].action = "answer"
       /\ processed[k].at = "AwaitingAnswer"

\* thread t has requested lock l and does not hold it yet
WaitsFor(t, l) ==
  /\ lock_pc[t] > 0
  /\ LockPrograms[t][lock_pc[t]] = Acquire(l)

C30_HistoryIsRecentWindow ==
  data_lock = LockFree =>
    /\ Len(data_history) <= MAX_HISTORY_SECONDS
    /\ Len(data_history) = Min(samples, MAX_HISTORY_SECONDS)
    /\ \A k \in DOMAIN data_history :
         data_history[k] = FlattenData(SampleAt(samples - Len(data_history) + k))
    /\ data_history # << >> =>
         /\ MetricsResponse(latest_data).status = 200
         /\ data_history[Len(data_history)] = FlattenData(MetricsResponse(latest_data).body)
    /\ data_history = << >> => MetricsResponse(latest_data).status = 404
    /\ metrics_status \in {0, 200, 404}

\* more samples than the history keeps have been collected, the oldest were
\* dropped, and get_metrics has served a sample
C30_Witness ==
  /\ data_lock = LockFree
  /\ samples > MAX_HISTORY_SECONDS + 1
  /\ Len(data_history) = MAX_HISTORY_SECONDS
  /\ data_history[1].timestamp = samples - MAX_HISTORY_SECONDS + 1
  /\ metrics_status = 200

=============================================================================
